---- MODULE Spec2Model ----
(***************************************************************************)
(* A model of download.py: the Downloader that reads BBCSoundEffects.csv,  *)
(* builds the list of (url, final_wav_path) samples, and downloads,        *)
(* extracts and renames each sample on a ThreadPool of thread_count        *)
(* threads, counting finished and failed samples on the shared instance.   *)
(*                                                                         *)
(* Strings are TLA+ strings; a character is a string of length 1.          *)
(***************************************************************************)
EXTENDS Naturals, Integers, Sequences, FiniteSets, TLC

(***************************************************************************)
(* Bounds of the model.                                                    *)
(***************************************************************************)
\* thread_count, the constructor's parameter (THREAD_COUNT = 10 by default)
ThreadCount == 2
\* the longest catalog (number of data rows of the CSV)
MaxRows == 3
\* how many steps the environment (network, disk) may fail in one behaviour
MaxFaults == 1
\* how many files exist under sounds/ before the first run
MaxPre == 1
\* how many times the program is run over the same catalog
MaxRuns == 2
\* the longest string sanitize_path is applied to
MaxLen == 3

(***************************************************************************)
(* Strings.                                                                *)
(***************************************************************************)
None == "<None>"          \* Python's None: a missing field of a row

Char(s, i) == SubSeq(s, i, i)

Upper == "ABCDEFGHIJKLMNOPQRSTUVWXYZ"
Lower == "abcdefghijklmnopqrstuvwxyz"
Digits == "0123456789"

RECURSIVE IndexIn(_, _, _)
\* the position of character c in s at or after i, 0 when there is none
IndexIn(c, s, i) ==
    IF i > Len(s) THEN 0
    ELSE IF Char(s, i) = c THEN i ELSE IndexIn(c, s, i + 1)

\* str.lower() of one character
lowerChar(c) ==
    LET k == IndexIn(c, Upper, 1) IN IF k = 0 THEN c ELSE Char(Lower, k)

RECURSIVE lowerFrom(_, _)
\* str.lower() of s from its character i on
lowerFrom(s, i) ==
    IF i > Len(s) THEN "" ELSE lowerChar(Char(s, i)) \o lowerFrom(s, i + 1)

\* str.lower()
lower(s) == lowerFrom(s, 1)

\* str.endswith(suffix)
endswith(s, suffix) ==
    /\ Len(s) >= Len(suffix)
    /\ SubSeq(s, Len(s) - Len(suffix) + 1, Len(s)) = suffix

\* a pattern that leaves tabs and newlines alone as well
KeepsWhitespace(c) ==
    IndexIn(c, Upper \o Lower \o Digits \o "_-&,(). \t\n", 1) > 0

\* the characters the pattern [^\w\-&,()\. ] leaves alone
KeptChar(c) ==
    \/ IndexIn(c, Upper, 1) > 0
    \/ IndexIn(c, Lower, 1) > 0
    \/ IndexIn(c, Digits, 1) > 0
    \/ IndexIn(c, "_-&,(). ", 1) > 0

RECURSIVE reSubFrom(_, _)
\* re.sub(r'[^\w\-&,()\. ]', '_', s) from character i of s on
reSubFrom(s, i) ==
    IF i > Len(s) THEN ""
    ELSE (IF KeptChar(Char(s, i)) THEN Char(s, i) ELSE "_") \o reSubFrom(s, i + 1)

\* re.sub(r'[^\w\-&,()\. ]', '_', s)
reSub(s) == reSubFrom(s, 1)

\* the characters str.strip() removes
IsSpace(c) == c \in {" ", "\t", "\n", "\r"}

\* a strip that removes one space at most from each end
stripOnce(s) ==
    LET first == IF Len(s) > 0 /\ IsSpace(Char(s, 1)) THEN 2 ELSE 1
        last == IF Len(s) > 0 /\ IsSpace(Char(s, Len(s))) THEN Len(s) - 1 ELSE Len(s)
    IN IF first > last THEN "" ELSE SubSeq(s, first, last)

\* str.strip(): from the first to the last character that is no space
strip(s) ==
    LET solid == { i \in 1 .. Len(s) : ~IsSpace(Char(s, i)) } IN
    IF solid = {} THEN ""
    ELSE SubSeq(s, CHOOSE i \in solid : \A j \in solid : i <= j,
                   CHOOSE i \in solid : \A j \in solid : j <= i)

\* Downloader.sanitize_path; re.sub raises TypeError on None
sanitize_path(path_str) == strip(reSub(path_str))

MAX_FILENAME_LENGTH == 143

(***************************************************************************)
(* Paths.                                                                  *)
(***************************************************************************)
\* Path('sounds') / location: an absolute location replaces the left side
PathJoin(dir, name) ==
    IF Len(name) > 0 /\ Char(name, 1) = "/" THEN name ELSE dir \o "/" \o name

\* the positions of the "/" of p
Slashes(p) == { i \in 1 .. Len(p) : Char(p, i) = "/" }

\* the greatest element of a set of numbers that is not empty
Max(S) == CHOOSE i \in S : \A j \in S : j <= i

\* Path.parent of path q whose slashes are at the positions S
ParentAt(q, S) ==
    IF S = {} THEN "." ELSE IF Max(S) = 1 THEN "/" ELSE SubSeq(q, 1, Max(S) - 1)

\* Path.parent
Parent(p) == CHOOSE d \in { ParentAt(q, S) : q \in {p}, S \in {Slashes(p)} } : TRUE

SoundsDir == "sounds"

(***************************************************************************)
(* The inputs: the catalog rows and what the server holds.                 *)
(***************************************************************************)
Locations == {"A.WAV", "b.wav", "c.wav", "d.wav", "e.wav"}

\* the server has no archive for a location: HTTP 404
NotFound == <<"<404>">>

\* the member names (zf.namelist()) of the archive the server sends for a
\* location: an archive whose audio has the location's own name, one whose
\* audio has another name, one whose audio has the name of another location,
\* one without audio, and no archive at all
Remote(location) ==
    CASE location = "A.WAV" -> <<"r.txt", "A.WAV">>
      [] location = "b.wav" -> <<"T.wav", "b.wav">>
      [] location = "c.wav" -> <<"A.WAV">>
      [] location = "d.wav" -> <<"r.txt", "wav">>
      [] OTHER              -> NotFound

Row(location) == [location |-> location, description |-> "Wind: 1", CDName |-> " Nature "]

GoodRows == { Row(l) : l \in Locations }

\* rows that lack a field (a short row, which csv.DictReader fills with None)
BadRows ==
    { [location |-> None, description |-> "Wind: 1", CDName |-> " Nature "],
      [location |-> "A.WAV", description |-> None, CDName |-> " Nature "],
      [location |-> "A.WAV", description |-> "Wind: 1", CDName |-> None] }

Rows == GoodRows \cup BadRows

RECURSIVE SeqsUpTo(_, _)
\* the sequences over S of length at most n
SeqsUpTo(S, n) ==
    IF n = 0 THEN {<<>>}
    ELSE LET shorter == SeqsUpTo(S, n - 1) IN
         shorter \cup { Append(s, x) : s \in shorter, x \in S }

RECURSIVE SubSeqsOf(_)
\* the subsequences of s
SubSeqsOf(s) ==
    IF s = <<>> THEN {<<>>}
    ELSE LET rest == SubSeqsOf(Tail(s)) IN
         rest \cup { <<Head(s)>> \o x : x \in rest }

\* s with x put in before position k
InsertAt(s, k, x) == SubSeq(s, 1, k - 1) \o <<x>> \o SubSeq(s, k, Len(s))

\* the rows the catalogs of the runs are cut from; b.wav comes twice
Master == <<Row("A.WAV"), Row("e.wav"), Row("b.wav"), Row("d.wav"), Row("c.wav"),
            Row("b.wav")>>

\* the catalogs of the runs: the subsequences of Master of at most MaxRows rows
RunCatalogs == { c \in SubSeqsOf(Master) : Len(c) <= MaxRows }

\* the catalogs with one row that lacks a field, anywhere among good rows
BadCatalogs ==
    UNION { { InsertAt(c, k, r) : k \in 1 .. Len(c) + 1, r \in BadRows } :
              c \in { x \in RunCatalogs : Len(x) < MaxRows } }

\* the catalogs get_samples is checked on alone: every sequence of rows
Catalogs == SeqsUpTo(Rows, MaxRows)

(***************************************************************************)
(* The state.                                                              *)
(***************************************************************************)
VARIABLES
    catalog,      \* BBCSoundEffects.csv: whether it can be opened, and its rows
    fs,           \* the files: path -> content ("absent" when there is none)
    dirs,         \* the directories that exist
    phase,        \* "start", "aborted", "loaded", "running", "done"
    samples,      \* self.samples
    total_count,  \* self.total_count
    finished,     \* self.finished
    failed,       \* self.failed
    queue,        \* the pool's task queue: the chunks no thread has taken yet
    pc,           \* each pool thread's position in download()
    item,         \* the index in samples of the sample a thread is processing
    chunk,        \* the rest of the chunk a thread has taken
    zip,          \* temp_zip_path: the member names of the archive downloaded
    member,       \* wav_members[0]
    name,         \* extracted_wav_name
    exc,          \* the exception a thread has caught
    reg,          \* the value a thread has read of the counter it increments
    results,      \* the pool's result list, one slot per sample
    calls,        \* how many times download was called on each sample
    steps,        \* the steps of download that have completed for each sample
    out,          \* the lines download_all prints after the pool has returned
    faults,       \* the environment failures so far
    run,          \* the number of the current run of the program
    prev,         \* the samples and results of the previous run
    arrived,      \* the samples in the order their outcomes reached the pool
    path_str,     \* the argument of sanitize_path
    cleaned       \* what sanitize_path returned, call after call

vars == <<catalog, fs, dirs, phase, samples, total_count, finished, failed,
          queue, pc, item, chunk, zip, member, name, exc, reg, results, calls,
          steps, out, faults, run, prev, arrived, path_str, cleaned>>

\* a pool made without its argument: it takes its size from the machine
PoolOfOtherSize == 1 .. ThreadCount + 1

\* ThreadPool(self.thread_count): the pool's threads
Threads == 1 .. ThreadCount

Absent == "absent"
Pre == "pre"                  \* a file that was there before the first run
Whole(location) == location   \* the audio of the archive of a location
Partial(location) == "part:" \o location  \* what a failed extraction leaves

\* line 108: the members of the archive that end in .wav
IsWav(m) == endswith(lower(m), ".wav")

\* a selection that takes every member
AllMembers(namelist) == namelist

wav_members(namelist) == SelectSeq(namelist, IsWav)

\* every path under sounds/ that a catalog row or an archive member names
Paths ==
    { PathJoin(SoundsDir, l) : l \in Locations }
    \cup UNION { { PathJoin(SoundsDir, Remote(l)[k]) : k \in DOMAIN Remote(l) } :
                   l \in {x \in Locations : Remote(x) # NotFound} }

\* Path.exists()
Exists(files, directories, p) ==
    \/ p \in DOMAIN files /\ files[p] # Absent
    \/ p \in directories

BaseUrl == "https://sound-effects-media.bbcrewind.co.uk/zip/"

\* lines 64-71: the url of a row
UrlOf(location) == BaseUrl \o (location \o ".zip") \o "?download&rename=" \o location

\* what the server answers to a url: the archive's member names, or NotFound
\* for a url it does not know (HTTP 404)
Serve(url) ==
    IF \E l \in Locations : UrlOf(l) = url
    THEN Remote(CHOOSE l \in Locations : UrlOf(l) = url)
    ELSE NotFound

\* the location a url asks for (the origin of the bytes it yields)
Origin(url) == CHOOSE l \in Locations : UrlOf(l) = url

(***************************************************************************)
(* Downloader.get_samples                                                  *)
(***************************************************************************)
\* a skip check that looks for the location outside sounds/
SkipOutsideSounds(files, directories, final_wav_path) ==
    Exists(files, directories,
           SubSeq(final_wav_path, Len(SoundsDir) + 2, Len(final_wav_path)))

\* lines 46-50: whether the row is skipped
Skip(files, directories, final_wav_path) == Exists(files, directories, final_wav_path)

\* a reader that insists on the location alone
LacksLocation(row) == row.location = None

\* a row that makes lines 37-46 raise: sanitize_path(None) and
\* Path('sounds') / None are TypeErrors (a column that is missing, a KeyError)
Lacks(row) == row.CDName = None \/ row.description = None \/ row.location = None

RECURSIVE ReadRows(_, _, _, _)
\* lines 31-73: the loop over the rows, from row k on, acc the samples so far
ReadRows(rows, k, acc, env) ==
    IF k > Len(rows) THEN [raised |-> FALSE, samples |-> acc]
    ELSE
      LET row == rows[k] IN
      IF Lacks(row)
      THEN [raised |-> TRUE, samples |-> <<>>]
      ELSE
        LET folder == sanitize_path(row.CDName)
            max_description_length == MAX_FILENAME_LENGTH - Len(".wav")
            sanitized == sanitize_path(row.description)
            description ==
                SubSeq(sanitized, 1,
                       IF Len(sanitized) < max_description_length
                       THEN Len(sanitized) ELSE max_description_length)
            final_wav_path == PathJoin(SoundsDir, row.location)
            rename_part == sanitize_path("BBC_" \o folder \o "_" \o description \o ".wav")
            url == UrlOf(row.location)
        IN IF Skip(env.fs, env.dirs, final_wav_path)
           THEN ReadRows(rows, k + 1, acc, env)
           ELSE ReadRows(rows, k + 1,
                         Append(acc, [url |-> url, final_wav_path |-> final_wav_path]),
                         env)

\* lines 21-75
get_samples(cat, files, directories) ==
    IF ~cat.readable THEN [raised |-> TRUE, samples |-> <<>>]
    ELSE ReadRows(cat.rows, 1, <<>>, [fs |-> files, dirs |-> directories])

(***************************************************************************)
(* The pool: ThreadPool(thread_count).map(self.download, self.samples)     *)
(***************************************************************************)
\* Pool.map's chunksize: divmod(len(iterable), len(pool) * 4), rounded up
ChunkSize(n, threads) ==
    IF n = 0 THEN 0
    ELSE (n \div (threads * 4)) + (IF n % (threads * 4) = 0 THEN 0 ELSE 1)

RECURSIVE ChunksFrom(_, _, _)
\* the indices k .. n cut into chunks of the given size, in order
ChunksFrom(k, n, size) ==
    IF k > n THEN <<>>
    ELSE LET last == IF k + size - 1 < n THEN k + size - 1 ELSE n IN
         <<[j \in 1 .. (last - k + 1) |-> k + j - 1]>> \o ChunksFrom(last + 1, n, size)

\* the tasks map() puts on the pool's queue
Chunks(n, threads) == ChunksFrom(1, n, ChunkSize(n, threads))

Pending == [success |-> FALSE, filepath |-> "<pending>", exc |-> "<pending>"]
Succeeded == [success |-> TRUE, filepath |-> None, exc |-> None]          \* line 121
Failed(final_wav_path, e) == [success |-> FALSE, filepath |-> final_wav_path, exc |-> e]  \* line 128

NoWavError == "No WAV found in downloaded zip"

Idle == [t \in Threads |-> "idle"]
NoItem == [t \in Threads |-> 0]
NoChunk == [t \in Threads |-> <<>>]
NoText == [t \in Threads |-> ""]
NoZip == [t \in Threads |-> <<>>]
NoReg == [t \in Threads |-> 0]

(***************************************************************************)
(* The initial states: a catalog, and the files already under sounds/.     *)
(***************************************************************************)
\* the files of earlier runs: at most MaxPre of the rows' destinations
InitialFiles ==
    { [p \in Paths |-> IF p \in old THEN Pre ELSE Absent] :
        old \in { o \in SUBSET { PathJoin(SoundsDir, l) : l \in Locations } :
                     Cardinality(o) <= MaxPre } }

\* everything but the catalog and the files
InitRest ==
    /\ dirs \in { d \in SUBSET {SoundsDir} :
                    (\E p \in Paths : fs[p] # Absent) => SoundsDir \in d }
    /\ phase = "start"
    /\ samples = <<>>
    /\ total_count = 0
    /\ finished = 0
    /\ failed = 0
    /\ queue = <<>>
    /\ pc = Idle
    /\ item = NoItem
    /\ chunk = NoChunk
    /\ zip = NoZip
    /\ member = NoText
    /\ name = NoText
    /\ exc = NoText
    /\ reg = NoReg
    /\ results = <<>>
    /\ calls = <<>>
    /\ steps = <<>>
    /\ out = <<>>
    /\ faults = 0
    /\ run = 1
    /\ prev = [samples |-> <<>>, results |-> <<>>]
    /\ arrived = <<>>
    /\ cleaned = <<>>

Init ==
    /\ catalog \in { [readable |-> TRUE, rows |-> r] : r \in RunCatalogs \cup BadCatalogs }
                   \cup { [readable |-> FALSE, rows |-> <<>>] }
    /\ fs = [p \in Paths |-> Absent]      \* the first run starts with no file
    /\ InitRest
    /\ path_str = ""

\* the initial states get_samples is checked on alone
InitLoad ==
    /\ catalog \in { [readable |-> TRUE, rows |-> r] : r \in Catalogs }
                   \cup { [readable |-> FALSE, rows |-> <<>>] }
    /\ fs \in InitialFiles
    /\ InitRest
    /\ path_str = ""

(***************************************************************************)
(* Downloader.__init__ (lines 14-19), called from line 140                 *)
(***************************************************************************)
Construct ==
    /\ phase = "start"
    /\ LET got == get_samples(catalog, fs, dirs) IN
       IF got.raised
       THEN /\ phase' = "aborted"        \* the exception leaves __main__
            /\ UNCHANGED <<samples, total_count, finished, failed>>
       ELSE /\ phase' = "loaded"
            /\ samples' = got.samples
            /\ total_count' = Len(got.samples)
            /\ finished' = 0
            /\ failed' = 0
    /\ UNCHANGED <<catalog, fs, dirs, queue, pc, item, chunk, zip, member, name,
                   exc, reg, results, calls, steps, out, faults, run, prev>>
    /\ UNCHANGED <<arrived, path_str, cleaned>>

(***************************************************************************)
(* Downloader.download_all, up to the call of map (lines 81-82)            *)
(***************************************************************************)
Dispatch ==
    /\ phase = "loaded"
    /\ phase' = "running"
    /\ queue' = Chunks(Len(samples), ThreadCount)
    /\ results' = [i \in 1 .. Len(samples) |-> Pending]
    /\ calls' = [i \in 1 .. Len(samples) |-> 0]
    /\ steps' = [i \in 1 .. Len(samples) |-> <<>>]
    /\ UNCHANGED <<catalog, fs, dirs, samples, total_count, finished, failed, pc,
                   item, chunk, zip, member, name, exc, reg, out, faults, run, prev>>
    /\ arrived' = <<>>
    /\ UNCHANGED <<path_str, cleaned>>

(***************************************************************************)
(* A pool thread takes the next chunk and calls download on its first      *)
(* sample (line 95).  The idle threads are alike: the lowest takes it.     *)
(***************************************************************************)
\* a queue that keeps the task a thread takes
KeepTask(q) == q

\* the task queue once a thread has taken its head
AfterTake(q) == Tail(q)

TakeTask(t) ==
    /\ phase = "running"
    /\ pc[t] = "idle"
    /\ \A u \in Threads : u < t => pc[u] # "idle"
    /\ queue # <<>>
    /\ queue' = AfterTake(queue)
    /\ item' = [item EXCEPT ![t] = Head(Head(queue))]
    /\ chunk' = [chunk EXCEPT ![t] = Tail(Head(queue))]
    /\ calls' = [calls EXCEPT ![Head(Head(queue))] = @ + 1]
    /\ pc' = [pc EXCEPT ![t] = "mkdir"]
    /\ UNCHANGED <<catalog, fs, dirs, phase, samples, total_count, finished, failed,
                   zip, member, name, exc, reg, results, steps, out, faults, run,
                   prev>>
    /\ UNCHANGED <<arrived, path_str, cleaned>>

\* the exceptions that are no Exception: `except Exception` lets them through
NotException == {"KeyboardInterrupt", "SystemExit"}

\* a handler that takes the OSErrors alone
CatchesOSError(e) == e \in {"OSError: mkdir", "OSError: rename", "FileNotFoundError"}

\* line 123: except Exception as e
Catches(e) == e \notin NotException

\* a step of download raises e: the handler of line 123 takes it, or it leaves
\* download (what the pool then does with it is not modelled: the thread stays
\* at "raised")
Raise(t, e) ==
    /\ exc' = [exc EXCEPT ![t] = e]
    /\ pc' = [pc EXCEPT ![t] = IF Catches(e) THEN "failed_read" ELSE "raised"]

CanFault == faults < MaxFaults

Sample(t) == samples[item[t]]

\* a step of download has completed for the sample of thread t
Completed(t, step) == steps' = [steps EXCEPT ![item[t]] = Append(@, step)]

\* the directories mkdir(parents=True) makes sure of: p and those above it
Ancestors(p) ==
    UNION { IF q \in {".", "/"} THEN {}
            ELSE {q} \cup { SubSeq(q, 1, k - 1) : k \in { i \in Slashes(q) : i > 1 } } :
            q \in {p} }

\* the files with content c written at path p
Write(files, p, c) ==
    [q \in DOMAIN files \cup {p} |-> IF q = p THEN c ELSE files[q]]

\* os.rename on files: src replaces dst; renaming a file to itself does nothing
Move(files, src, dst) ==
    IF src = dst THEN files
    ELSE [q \in DOMAIN files \cup {dst} |->
            IF q = dst THEN files[src] ELSE IF q = src THEN Absent ELSE files[q]]

(***************************************************************************)
(* Downloader.download (lines 90-128), one action per step                 *)
(***************************************************************************)
\* line 99: final_wav_path.parent.mkdir(parents=True, exist_ok=True)
Mkdir(t) ==
    /\ pc[t] = "mkdir"
    /\ \/ /\ dirs' = dirs \cup Ancestors(Parent(Sample(t).final_wav_path))
          /\ pc' = [pc EXCEPT ![t] = "download"]
          /\ Completed(t, "mkdir")
          /\ UNCHANGED <<exc, faults>>
       \/ /\ CanFault
          /\ faults' = faults + 1
          /\ Raise(t, "OSError: mkdir")
          /\ UNCHANGED <<dirs, steps>>
    /\ UNCHANGED <<catalog, fs, phase, samples, total_count, finished, failed, queue,
                   item, chunk, zip, member, name, reg, results, calls, out, run,
                   prev>>
    /\ UNCHANGED <<arrived, path_str, cleaned>>

\* line 102: urllib.request.urlretrieve(url)
Download(t) ==
    /\ pc[t] = "download"
    /\ \/ /\ Serve(Sample(t).url) # NotFound
          /\ zip' = [zip EXCEPT ![t] = Serve(Sample(t).url)]
          /\ pc' = [pc EXCEPT ![t] = "open"]
          /\ Completed(t, "download")
          /\ UNCHANGED <<exc, faults>>
       \/ /\ Serve(Sample(t).url) = NotFound
          /\ Raise(t, "HTTPError: 404")
          /\ UNCHANGED <<zip, faults, steps>>
       \/ /\ CanFault
          /\ faults' = faults + 1
          /\ Raise(t, "URLError")
          /\ UNCHANGED <<zip, steps>>
    /\ UNCHANGED <<catalog, fs, dirs, phase, samples, total_count, finished, failed,
                   queue, item, chunk, member, name, reg, results, calls, out, run,
                   prev>>
    /\ UNCHANGED <<arrived, path_str, cleaned>>

\* lines 106-110: open the archive and pick the first .wav member
Open(t) ==
    /\ pc[t] = "open"
    /\ \/ /\ wav_members(zip[t]) # <<>>
          /\ member' = [member EXCEPT ![t] = wav_members(zip[t])[1]]
          /\ pc' = [pc EXCEPT ![t] = "extract"]
          /\ Completed(t, "open")
          /\ UNCHANGED <<exc, faults>>
       \/ /\ wav_members(zip[t]) = <<>>
          /\ Raise(t, NoWavError)
          /\ UNCHANGED <<member, faults, steps>>
       \/ /\ CanFault
          /\ faults' = faults + 1
          /\ Raise(t, "BadZipFile")
          /\ UNCHANGED <<member, steps>>
    /\ UNCHANGED <<catalog, fs, dirs, phase, samples, total_count, finished, failed,
                   queue, item, chunk, zip, name, reg, results, calls, out, run,
                   prev>>
    /\ UNCHANGED <<arrived, path_str, cleaned>>

\* the path zf.extract(member, path=final_wav_path.parent) writes and returns
ExtractTarget(final_wav_path, m) == Parent(final_wav_path) \o "/" \o m

\* the path thread t extracts to
Target(t) == ExtractTarget(Sample(t).final_wav_path, member[t])

\* line 113: zf.extract creates the target file and copies the member into it;
\* when it fails it has either created nothing or left what it had written
Extract(t) ==
    /\ pc[t] = "extract"
    /\ \E target \in {Target(t)}, origin \in {Origin(Sample(t).url)} :
          \/ /\ fs' = Write(fs, target, Whole(origin))
             /\ dirs' = dirs \cup Ancestors(Parent(target))
             /\ name' = [name EXCEPT ![t] = target]
             /\ pc' = [pc EXCEPT ![t] = "rename"]
             /\ Completed(t, "extract")
             /\ UNCHANGED <<exc, faults>>
          \/ /\ CanFault
             /\ faults' = faults + 1
             /\ Raise(t, "Error: extract")
             /\ \/ UNCHANGED <<fs, dirs>>
                \/ /\ fs' = Write(fs, target, Partial(origin))
                   /\ dirs' = dirs \cup Ancestors(Parent(target))
             /\ UNCHANGED <<name, steps>>
    /\ UNCHANGED <<catalog, phase, samples, total_count, finished, failed, queue,
                   item, chunk, zip, member, reg, results, calls, out, run, prev>>
    /\ UNCHANGED <<arrived, path_str, cleaned>>

\* lines 116-117: extracted_wav_path.rename(final_wav_path)
Rename(t) ==
    /\ pc[t] = "rename"
    /\ \/ /\ fs[name[t]] # Absent
          /\ fs' = Move(fs, name[t], Sample(t).final_wav_path)
          /\ pc' = [pc EXCEPT ![t] = "finished_read"]
          /\ Completed(t, "rename")
          /\ UNCHANGED <<exc, faults>>
       \/ /\ fs[name[t]] = Absent
          /\ Raise(t, "FileNotFoundError")
          /\ UNCHANGED <<fs, faults, steps>>
       \/ /\ CanFault
          /\ faults' = faults + 1
          /\ Raise(t, "OSError: rename")
          /\ UNCHANGED <<fs, steps>>
    /\ UNCHANGED <<catalog, dirs, phase, samples, total_count, finished, failed, queue,
                   item, chunk, zip, member, name, reg, results, calls, out, run,
                   prev>>
    /\ UNCHANGED <<arrived, path_str, cleaned>>

\* a pool that keeps the outcomes in the order they arrive (imap_unordered)
ReturnInArrivalOrder(t, r) ==
    /\ results' = [results EXCEPT
                      ![CHOOSE i \in DOMAIN results :
                           /\ results[i] = Pending
                           /\ \A j \in DOMAIN results : results[j] = Pending => i <= j] = r]
    /\ IF chunk[t] = <<>>
       THEN /\ pc' = [pc EXCEPT ![t] = "idle"]
            /\ item' = [item EXCEPT ![t] = 0]
            /\ UNCHANGED <<chunk, calls>>
       ELSE /\ pc' = [pc EXCEPT ![t] = "mkdir"]
            /\ item' = [item EXCEPT ![t] = Head(chunk[t])]
            /\ chunk' = [chunk EXCEPT ![t] = Tail(chunk[t])]
            /\ calls' = [calls EXCEPT ![Head(chunk[t])] = @ + 1]
    /\ zip' = [zip EXCEPT ![t] = <<>>]
    /\ member' = [member EXCEPT ![t] = ""]
    /\ name' = [name EXCEPT ![t] = ""]
    /\ exc' = [exc EXCEPT ![t] = ""]
    /\ reg' = [reg EXCEPT ![t] = 0]
    /\ arrived' = Append(arrived, item[t])

\* the thread returns outcome r for its sample and goes on with its chunk
Return(t, r) ==
    /\ results' = [results EXCEPT ![item[t]] = r]
    /\ IF chunk[t] = <<>>
       THEN /\ pc' = [pc EXCEPT ![t] = "idle"]
            /\ item' = [item EXCEPT ![t] = 0]
            /\ UNCHANGED <<chunk, calls>>
       ELSE /\ pc' = [pc EXCEPT ![t] = "mkdir"]
            /\ item' = [item EXCEPT ![t] = Head(chunk[t])]
            /\ chunk' = [chunk EXCEPT ![t] = Tail(chunk[t])]
            /\ calls' = [calls EXCEPT ![Head(chunk[t])] = @ + 1]
    /\ zip' = [zip EXCEPT ![t] = <<>>]
    /\ member' = [member EXCEPT ![t] = ""]
    /\ name' = [name EXCEPT ![t] = ""]
    /\ exc' = [exc EXCEPT ![t] = ""]
    /\ reg' = [reg EXCEPT ![t] = 0]
    /\ arrived' = Append(arrived, item[t])

\* line 119, self.finished += 1: the read of self.finished
FinishedRead(t) ==
    /\ pc[t] = "finished_read"
    /\ reg' = [reg EXCEPT ![t] = finished]
    /\ pc' = [pc EXCEPT ![t] = "finished_write"]
    /\ UNCHANGED <<catalog, fs, dirs, phase, samples, total_count, finished, failed,
                   queue, item, chunk, zip, member, name, exc, results, calls, steps,
                   out, faults, run, prev>>
    /\ UNCHANGED <<arrived, path_str, cleaned>>

\* lines 119-121: the write of self.finished, and the return
FinishedWrite(t) ==
    /\ pc[t] = "finished_write"
    /\ finished' = reg[t] + 1
    /\ Return(t, Succeeded)
    /\ UNCHANGED <<catalog, fs, dirs, phase, samples, total_count, failed, queue,
                   steps, out, faults, run, prev>>
    /\ UNCHANGED <<path_str, cleaned>>

\* line 124, self.failed += 1: the read of self.failed
FailedRead(t) ==
    /\ pc[t] = "failed_read"
    /\ reg' = [reg EXCEPT ![t] = failed]
    /\ pc' = [pc EXCEPT ![t] = "failed_write"]
    /\ UNCHANGED <<catalog, fs, dirs, phase, samples, total_count, finished, failed,
                   queue, item, chunk, zip, member, name, exc, results, calls, steps,
                   out, faults, run, prev>>
    /\ UNCHANGED <<arrived, path_str, cleaned>>

\* lines 124-128: the write of self.failed, and the return
FailedWrite(t) ==
    /\ pc[t] = "failed_write"
    /\ failed' = reg[t] + 1
    /\ Return(t, Failed(Sample(t).final_wav_path, exc[t]))
    /\ UNCHANGED <<catalog, fs, dirs, phase, samples, total_count, finished, queue,
                   steps, out, faults, run, prev>>
    /\ UNCHANGED <<path_str, cleaned>>

(***************************************************************************)
(* Downloader.download_all after map has returned (lines 84-88)            *)
(***************************************************************************)
\* a map that returns with the first result
ReturnsAtFirst == \E i \in DOMAIN results : results[i] # Pending

\* a wait on the counters instead of the results
ReturnsByCount == finished + failed = total_count

\* map returns when every sample has its result
MapReturns == \A i \in DOMAIN results : results[i] # Pending

Line(kind, filepath, e, n) == [kind |-> kind, filepath |-> filepath, exc |-> e, n |-> n]

RECURSIVE FailureLinesFrom(_, _)
\* lines 85-87 from result i on
FailureLinesFrom(rs, i) ==
    IF i > Len(rs) THEN <<>>
    ELSE (IF ~rs[i].success
          THEN <<Line("failure", rs[i].filepath, rs[i].exc, 0)>>
          ELSE <<>>) \o FailureLinesFrom(rs, i + 1)

\* lines 85-87: one line per result that is not a success, in the list's order
FailureLines(rs) == FailureLinesFrom(rs, 1)

Report ==
    /\ phase = "running"
    /\ MapReturns
    /\ out' = <<Line("header", "", "", 0)>> \o FailureLines(results)
                  \o <<Line("count", "", "", failed)>>
    /\ phase' = "done"
    /\ UNCHANGED <<catalog, fs, dirs, samples, total_count, finished, failed, queue,
                   pc, item, chunk, zip, member, name, exc, reg, results, calls,
                   steps, faults, run, prev>>
    /\ UNCHANGED <<arrived, path_str, cleaned>>

(***************************************************************************)
(* The program is run again over the same catalog (line 140 once more).    *)
(***************************************************************************)
Rerun ==
    /\ phase = "done"
    /\ run < MaxRuns
    /\ run' = run + 1
    /\ prev' = [samples |-> samples, results |-> results]
    /\ phase' = "start"
    /\ samples' = <<>>
    /\ total_count' = 0
    /\ finished' = 0
    /\ failed' = 0
    /\ results' = <<>>
    /\ calls' = <<>>
    /\ steps' = <<>>
    /\ out' = <<>>
    /\ UNCHANGED <<catalog, fs, dirs, queue, pc, item, chunk, zip, member, name,
                   exc, reg, faults>>
    /\ arrived' = <<>>
    /\ UNCHANGED <<path_str, cleaned>>

Next ==
    \/ Construct
    \/ Dispatch
    \/ \E t \in Threads :
          \/ TakeTask(t)
          \/ Mkdir(t)
          \/ Download(t)
          \/ Open(t)
          \/ Extract(t)
          \/ Rename(t)
          \/ FinishedRead(t)
          \/ FinishedWrite(t)
          \/ FailedRead(t)
          \/ FailedWrite(t)
    \/ Report
    \/ Rerun

Spec == Init /\ [][Next]_vars

\* a step of pool thread t
Step(t) ==
    \/ TakeTask(t)
    \/ Mkdir(t)
    \/ Download(t)
    \/ Open(t)
    \/ Extract(t)
    \/ Rename(t)
    \/ FinishedRead(t)
    \/ FinishedWrite(t)
    \/ FailedRead(t)
    \/ FailedWrite(t)

\* the runs whose end is checked: the catalogs cut from the first four rows
InitFair ==
    /\ catalog \in { [readable |-> TRUE, rows |-> r] :
                        r \in RunCatalogs \cap SubSeqsOf(SubSeq(Master, 1, 4)) }
    /\ fs = [p \in Paths |-> Absent]
    /\ InitRest
    /\ path_str = ""

\* the main thread and every pool thread keep running while they can, and
\* every step returns; nothing makes the user run the program again
FairSpec ==
    /\ InitFair /\ [][Next]_vars
    /\ WF_vars(Construct)
    /\ WF_vars(Dispatch)
    /\ WF_vars(Report)
    /\ \A t \in Threads : WF_vars(Step(t))

\* get_samples alone, on every catalog
LoadSpec == InitLoad /\ [][Construct]_vars

(***************************************************************************)
(* Downloader.sanitize_path alone (lines 130-136), on every string of at   *)
(* most MaxLen characters over an alphabet of letters, a digit, kept       *)
(* punctuation, the space, other whitespace and characters the pattern     *)
(* replaces.                                                               *)
(***************************************************************************)
Alphabet == {"a", "Z", "7", "_", "-", " ", "\t", "\n", "/", ":"}

RECURSIVE StringsUpTo(_)
\* the strings over Alphabet of at most n characters
StringsUpTo(n) ==
    IF n = 0 THEN {""}
    ELSE LET shorter == StringsUpTo(n - 1) IN
         shorter \cup { s \o c : s \in shorter, c \in Alphabet }

InitSanitize ==
    /\ catalog = [readable |-> FALSE, rows |-> <<>>]
    /\ fs = [p \in Paths |-> Absent]
    /\ InitRest
    /\ path_str \in StringsUpTo(MaxLen)

\* sanitize_path is called on path_str, and then on what it returned (as
\* line 58 calls it on what lines 37 and 44 returned)
Sanitize ==
    /\ Len(cleaned) < 2
    /\ cleaned' = Append(cleaned, sanitize_path(IF cleaned = <<>> THEN path_str
                                                ELSE cleaned[Len(cleaned)]))
    /\ UNCHANGED <<catalog, fs, dirs, phase, samples, total_count, finished, failed,
                   queue, pc, item, chunk, zip, member, name, exc, reg, results,
                   calls, steps, out, faults, run, prev, arrived, path_str>>

SanitizeSpec == InitSanitize /\ [][Sanitize]_vars

(***************************************************************************)
(* The claims.                                                             *)
(***************************************************************************)
Indices == DOMAIN results

\* the run has ended: map has returned and the summary is printed
RunEnded == phase = "done"

\* the number of results that are successes, and that are failures
NumSucceeded == Cardinality({ i \in Indices : results[i] # Pending /\ results[i].success })
NumFailed == Cardinality({ i \in Indices : results[i] # Pending /\ ~results[i].success })

\* the failure lines of the summary
FailurePaths == SelectSeq(out, LAMBDA l : l.kind = "failure")

\* C1: with more than one thread, a run in which every sample succeeds ends
\* with finished = the number of samples and failed = 0, in every interleaving
\* of the threads, the read and the write of each increment included.
C1_AllSucceedCounts ==
    (RunEnded /\ ThreadCount > 1 /\ \A i \in Indices : results[i].success)
        => (finished = Len(samples) /\ failed = 0)

\* no two samples have the same destination (the catalog's locations differ)
UniqueDestinations ==
    \A i, j \in DOMAIN samples :
        samples[i].final_wav_path = samples[j].final_wav_path => i = j

\* exactly one sample failed, and it failed in its download, with a 404
OnlyDownloadFailed(k) ==
    /\ UniqueDestinations
    /\ ~results[k].success
    /\ results[k].exc = "HTTPError: 404"
    /\ \A i \in Indices \ {k} : results[i].success

\* C2: a run over distinct locations in which exactly one sample fails, in its
\* download (the server answers 404), and the others succeed ends with total_count = N, finished = N - 1, failed = 1 and
\* one failure line, which names the destination of the sample that failed.
C2_OneFailureIsolated ==
    \A k \in Indices :
        (RunEnded /\ OnlyDownloadFailed(k))
            => /\ total_count = Len(samples)
               /\ finished = Len(samples) - 1
               /\ failed = 1
               /\ Len(FailurePaths) = 1
               /\ FailurePaths[1].filepath = samples[k].final_wav_path

AllSteps == <<"mkdir", "download", "open", "extract", "rename">>

\* the errors a step of download raises
ErrorsOf(step) ==
    CASE step = "mkdir"    -> {"OSError: mkdir"}
      [] step = "download" -> {"HTTPError: 404", "URLError"}
      [] step = "open"     -> {"BadZipFile", NoWavError}
      [] step = "extract"  -> {"Error: extract"}
      [] step = "rename"   -> {"FileNotFoundError", "OSError: rename"}

\* C3: download never raises past its boundary: no thread is left with an
\* exception that went through the handler, a result that is a success is the
\* result of a call all five steps of which completed, and the result of a call
\* one step of which failed is a failure that carries the sample's own
\* destination and the error of that step.
C3_NeverRaises ==
    /\ \A t \in Threads : pc[t] # "raised"
    /\ \A i \in Indices :
          results[i] # Pending =>
              IF steps[i] = AllSteps
              THEN results[i] = Succeeded
              ELSE /\ results[i].success = FALSE
                   /\ results[i].filepath = samples[i].final_wav_path
                   /\ Len(steps[i]) < Len(AllSteps)
                   /\ steps[i] = SubSeq(AllSteps, 1, Len(steps[i]))
                   /\ results[i].exc \in ErrorsOf(AllSteps[Len(steps[i]) + 1])

\* a run in which every step that can fail has failed for some sample
C3_Witness ==
    /\ RunEnded
    /\ \E i, j \in Indices :
          /\ ~results[i].success /\ results[i].exc = NoWavError
          /\ ~results[j].success /\ results[j].exc = "OSError: rename"
    /\ \E i \in Indices : results[i].success

\* C4: no line of the summary is printed while a sample is unclaimed or in
\* flight, and a failure cancels nothing: when the summary is printed download
\* has been called on every sample and has returned for every one.
C4_ReportAfterAll ==
    out # <<>> =>
        /\ queue = <<>>
        /\ \A t \in Threads : pc[t] = "idle" /\ item[t] = 0 /\ chunk[t] = <<>>
        /\ \A i \in DOMAIN samples :
              /\ i \in Indices
              /\ results[i] # Pending
              /\ calls[i] >= 1
              /\ steps[i] # <<>> \/ results[i].exc \in ErrorsOf("mkdir")

\* the summary of a run of three samples the first of which failed
C4_Witness ==
    /\ out # <<>>
    /\ Len(samples) = 3
    /\ ~results[1].success
    /\ results[2].success /\ results[3].success

\* C6: every sample is claimed by one thread and processed once: download is
\* never called twice on a sample, no two threads hold the same sample, a
\* sample that has its result is held by no thread, and when the run has
\* ended download has been called exactly once on every sample and the result
\* list has one outcome per sample.
C6_ExactlyOnce ==
    /\ \A i \in DOMAIN calls : calls[i] <= 1
    /\ \A t, u \in Threads : (item[t] # 0 /\ item[t] = item[u]) => t = u
    /\ \A t \in Threads : item[t] # 0 => results[item[t]] = Pending /\ calls[item[t]] = 1
    /\ \A i \in Indices : results[i] # Pending => calls[i] = 1
    /\ phase \in {"running", "done"} => Len(results) = Len(samples)
    /\ RunEnded => \A i \in DOMAIN samples : calls[i] = 1 /\ results[i] # Pending

\* a run of three samples, over two threads, one of which failed, has ended
C6_Witness ==
    /\ RunEnded
    /\ Len(samples) = 3
    /\ NumFailed = 1
    /\ NumSucceeded = 2

\* C5: under fair scheduling, a run that has loaded its samples reaches the
\* state in which every sample has its outcome and the summary, which ends
\* with the count of failures, is printed.
C5_RunCompletes ==
    (phase = "loaded") ~>
        /\ RunEnded
        /\ \A i \in DOMAIN samples : i \in Indices /\ results[i] # Pending
        /\ out # <<>>
        /\ out[Len(out)].kind = "count"

\* a run with a success and two failures has printed its summary
C5_Witness ==
    /\ RunEnded
    /\ out # <<>>
    /\ NumSucceeded = 1
    /\ NumFailed = 2

\* the destination the claims give a row
DestinationOf(row) == "sounds/" \o row.location

\* there is no file at path p
NoFileAt(p) == fs[p] = Absent

\* C7: get_samples emits a sample for a row exactly when no file exists at
\* sounds/<location>: the destinations of the samples are, in the rows' order,
\* the destinations of the rows at which there is no file (a row whose file
\* exists gives none, every other row gives one).
C7_SkipIfExists ==
    phase = "loaded" =>
        LET dests == [k \in DOMAIN catalog.rows |-> DestinationOf(catalog.rows[k])]
        IN [k \in DOMAIN samples |-> samples[k].final_wav_path] = SelectSeq(dests, NoFileAt)

\* a catalog of three rows, the second of which is skipped
C7_Witness ==
    /\ phase = "loaded"
    /\ Len(catalog.rows) = 3
    /\ ~NoFileAt(DestinationOf(catalog.rows[2]))
    /\ Len(samples) = 2
    /\ samples[1].final_wav_path # samples[2].final_wav_path

\* an archive that can be opened and has no member that ends in .wav
NoAudio(namelist) ==
    namelist # NotFound /\ \A k \in DOMAIN namelist : ~IsWav(namelist[k])

\* C8: the result of a sample whose archive was downloaded and opened and has
\* no member ending in .wav is a failure that carries the no-WAV error, and
\* there is no file at its destination.
C8_NoAudioFails ==
    \A i \in Indices :
        ( /\ results[i] # Pending
          /\ Len(steps[i]) >= 2
          /\ NoAudio(Serve(samples[i].url))
          /\ results[i].exc # "BadZipFile" )
        => /\ results[i] = Failed(samples[i].final_wav_path, NoWavError)
           /\ fs[samples[i].final_wav_path] = Absent

\* a run of three samples has ended, one of which had an archive without audio
C8_Witness ==
    /\ RunEnded
    /\ Len(samples) = 3
    /\ \E i \in Indices :
          /\ NoAudio(Serve(samples[i].url))
          /\ results[i].exc = NoWavError
    /\ \E i \in Indices : results[i].success

\* C9: in a run after a run over the same catalog (of distinct locations),
\* no sample is emitted for a sample that succeeded in the run before, and a
\* sample is emitted again for every sample that failed in it.
C9_RerunRetriesFailures ==
    ( /\ run > 1
      /\ phase = "loaded"
      /\ \A i, j \in DOMAIN prev.samples :
            prev.samples[i].final_wav_path = prev.samples[j].final_wav_path => i = j )
    => \A k \in DOMAIN prev.samples :
          LET again == \E j \in DOMAIN samples :
                          samples[j].final_wav_path = prev.samples[k].final_wav_path
          IN IF prev.results[k].success THEN ~again ELSE again

\* the catalog cannot be read, or a row of it lacks a field
CatalogError ==
    \/ ~catalog.readable
    \/ \E k \in DOMAIN catalog.rows :
          \E f \in {"location", "description", "CDName"} : catalog.rows[k][f] = None

\* nothing has been dispatched, downloaded, written or reported
NothingDone ==
    /\ phase \in {"start", "aborted"}
    /\ samples = <<>> /\ queue = <<>> /\ results = <<>> /\ calls = <<>>
    /\ \A t \in Threads : pc[t] = "idle" /\ item[t] = 0
    /\ \A p \in DOMAIN fs : fs[p] = Absent
    /\ out = <<>>

\* C10: a catalog error aborts the run before any work is dispatched: with a
\* catalog that cannot be read or has a row lacking a field, no download is
\* ever started, no file or directory is ever created and no report is
\* produced.
C10_CatalogErrorAborts ==
    /\ [](CatalogError => NothingDone)
    /\ [][CatalogError => (fs' = fs /\ dirs' = dirs /\ phase' = "aborted")]_vars

\* the run over a catalog whose third row lacks a field has been aborted
C10_Witness ==
    /\ phase = "aborted"
    /\ catalog.readable
    /\ Len(catalog.rows) = 3
    /\ ~Lacks(catalog.rows[1]) /\ ~Lacks(catalog.rows[2])

\* the url the claims give a location
UrlFor(location) ==
    "https://sound-effects-media.bbcrewind.co.uk/zip/" \o location
        \o ".zip?download&rename=" \o location

\* C11: every sample emitted for a row has the destination sounds/<location>
\* and the url built from the location alone, and a sample whose outcome is a
\* success has a file at its destination.
C11_ItemAndFile ==
    /\ \A j \in DOMAIN samples :
          \E k \in DOMAIN catalog.rows :
             /\ samples[j].final_wav_path = "sounds/" \o catalog.rows[k].location
             /\ samples[j].url = UrlFor(catalog.rows[k].location)
    /\ UniqueDestinations =>
          \A i \in Indices :
             (results[i] # Pending /\ results[i].success)
                 => fs[samples[i].final_wav_path] # Absent

\* C12: sanitize_path is idempotent: applied to its own output it returns that
\* output, whatever the input, leading and trailing whitespace and replaced
\* characters next to it included.
C12_Idempotent == Len(cleaned) = 2 => cleaned[2] = cleaned[1]

\* sanitize_path was applied twice to a string whose replaced character sits
\* between a leading and a trailing space
C12_Witness ==
    /\ Len(cleaned) = 2
    /\ path_str = " / "
    /\ cleaned[1] = "_"

\* the characters the claims allow in a sanitized string
AllowedChars ==
    "abcdefghijklmnopqrstuvwxyzABCDEFGHIJKLMNOPQRSTUVWXYZ0123456789_-&,(). "

IsAllowed(c) == \E i \in 1 .. Len(AllowedChars) : Char(AllowedChars, i) = c

Whitespace == {" ", "\t", "\n", "\r"}

\* C13: the output of sanitize_path has allowed characters only and neither
\* starts nor ends with whitespace; it is the input with every character that
\* is not allowed replaced by one "_" and the spaces at its ends cut off.
C13_CharacterSet ==
    cleaned # <<>> =>
        LET o == cleaned[1] IN
        /\ \A i \in 1 .. Len(o) : IsAllowed(Char(o, i))
        /\ Len(o) > 0 => (Char(o, 1) \notin Whitespace /\ Char(o, Len(o)) \notin Whitespace)
        /\ \E lo \in 0 .. Len(path_str) :
              /\ lo + Len(o) <= Len(path_str)
              /\ \A i \in 1 .. Len(o) :
                    Char(o, i) = IF IsAllowed(Char(path_str, lo + i))
                                 THEN Char(path_str, lo + i) ELSE "_"
              /\ \A i \in (1 .. lo) \cup ((lo + Len(o) + 1) .. Len(path_str)) :
                    Char(path_str, i) = " "

\* sanitize_path was applied to a string with a leading space and a tab
C13_Witness ==
    /\ cleaned # <<>>
    /\ path_str = " \ta"
    /\ cleaned[1] = "_a"

\* C14: the failure count printed at the end of the summary is the number of
\* failure lines printed above it, in every interleaving of the threads, and
\* it is 0 exactly when no sample failed (here for the runs whose failures are
\* the server's and the archives' own: no step fails by chance).
C14_CountMatchesLines ==
    (RunEnded /\ faults = 0) =>
        /\ out[Len(out)].kind = "count"
        /\ out[Len(out)].n = Len(FailurePaths)
        /\ out[Len(out)].n = 0 <=> NumFailed = 0

\* the samples download was called on and has not returned for
InFlight == { i \in Indices : calls[i] >= 1 /\ results[i] = Pending }

\* the positions of a thread that is inside download
Inside ==
    {"mkdir", "download", "open", "extract", "rename", "finished_read",
     "finished_write", "failed_read", "failed_write"}

C16_OnlyRenameCreates ==
    (run = 1 /\ UniqueDestinations) =>
        \A i \in Indices :
            /\ Len(steps[i]) <= Len(AllSteps)
            /\ steps[i] = SubSeq(AllSteps, 1, Len(steps[i]))
            /\ fs[samples[i].final_wav_path] # Absent => steps[i] = AllSteps

\* C17: in a first run over distinct locations, the file at the destination
\* of a sample that succeeded holds the audio of that sample's own archive,
\* also when the archives of different samples have members of the same name.
C17_OwnAudioAtDestination ==
    (run = 1 /\ RunEnded /\ UniqueDestinations /\ faults = 0) =>
        \A i \in Indices :
            results[i].success =>
                fs[samples[i].final_wav_path] = Whole(Origin(samples[i].url))

\* the samples whose five steps have completed, and those a step of which
\* has raised
SucceededSoFar == { i \in DOMAIN steps : steps[i] = AllSteps }
FailedSoFar ==
    { i \in Indices : results[i] # Pending /\ ~results[i].success }
    \cup { item[t] : t \in { u \in Threads : pc[u] \in {"failed_read", "failed_write"} } }

\* C18: during a run finished and failed never decrease, finished is at most
\* the number of samples that have succeeded so far, failed at most the
\* number that have failed so far, and their sum at most total_count (the
\* decrease is looked for in the runs over distinct locations none of whose
\* steps fails by chance).
C18_CountersMonotone ==
    /\ [](/\ finished <= Cardinality(SucceededSoFar)
          /\ failed <= Cardinality(FailedSoFar)
          /\ finished + failed <= total_count)
    /\ [][(phase = "running" /\ faults' = 0 /\ UniqueDestinations)
              => (finished' >= finished /\ failed' >= failed)]_vars

\* the sample did not get through its five steps
DidFail(i) == steps[i] # AllSteps

\* the destinations of the samples that failed, in the order of the samples
FailedInCatalogOrder ==
    LET failures == SelectSeq([i \in DOMAIN samples |-> i], DidFail)
    IN [k \in DOMAIN failures |-> samples[failures[k]].final_wav_path]

\* C19: the failure lines of the summary name the samples that failed in the
\* order of the sample list, whatever the order in which the threads
\* returned their outcomes.
C19_FailuresInCatalogOrder ==
    RunEnded =>
        [k \in DOMAIN FailurePaths |-> FailurePaths[k].filepath] = FailedInCatalogOrder

\* a summary with two failure lines, after a run in which the later of the two
\* samples returned its outcome first
C19_Witness ==
    /\ RunEnded
    /\ Len(FailurePaths) = 2
    /\ \E a, b \in DOMAIN arrived :
          /\ a < b
          /\ arrived[a] > arrived[b]
          /\ DidFail(arrived[a]) /\ DidFail(arrived[b])

====
